---- MODULE Spec2Model ----
(***************************************************************************)
(* cargo-explain: the terminal renderer of src/src/main.rs.                *)
(*                                                                         *)
(* A string is a sequence of characters.  A character is a one-letter      *)
(* string ("a", " ", "*", ...) or one of the names below, which stand for  *)
(* a character or an escape sequence that is more than one byte long:      *)
(*   "NL"   the newline                        1 byte,  no column          *)
(*   "BAR"  U+2551, the quote marker glyph     3 bytes, 1 column           *)
(*   "HR"   U+2501, the rule glyph             3 bytes, 1 column           *)
(*   "ESC_ITALIC" "ESC_BOLD" "ESC_UNDERLINE" "ESC_COLOR"                   *)
(*          the escape sequence that switches one style on                 *)
(*   "ESC_RESET"  ESC [ 0 m, which switches every style off                *)
(***************************************************************************)
EXTENDS Integers, Sequences, FiniteSets, TLC

VARIABLES
    terminal_width, \* main: Option<usize>, [some |-> BOOLEAN, w |-> Nat]
    build,          \* the build profile: "debug" checks usize overflow, "release" wraps
    pc,             \* where the process is
    stack,          \* the call stack of print_block: the loops that are running
    stdout,         \* everything written to the standard output so far
    called,         \* the print_block call made last
    last,           \* the print_block call that returned last
    w_text,         \* wrap_and_prefix_text: the text argument
    w_prefix,       \* wrap_and_prefix_text: the prefix argument
    w_result,       \* wrap_and_prefix_text: what the call returned
    s_spans,        \* join_spans: the spans argument
    s_result        \* join_spans: what the call returned

vars == <<terminal_width, build, pc, stack, stdout, called, last,
          w_text, w_prefix, w_result, s_spans, s_result>>

----------------------------------------------------------------------------
(* Bounds of the model *)

MaxWidth == 8        \* terminal widths 0..MaxWidth are tried by the wrap calls
MaxTextLen == 5      \* the texts given to wrap_and_prefix_text have 1..MaxTextLen characters
MaxStyleDepth == 3   \* Emphasis/Strong spans nest up to this depth
MaxBlockDepth == 2   \* Blockquote and list blocks nest up to this depth
DeepNest == 65       \* the depth of the one deeply nested Blockquote chain

----------------------------------------------------------------------------
(* Characters and strings *)

NL == "NL"
SP == " "
ANSI_RESET == "ESC_RESET"

Escapes == {"ESC_ITALIC", "ESC_BOLD", "ESC_UNDERLINE", "ESC_COLOR", "ESC_RESET"}

\* The number of bytes of a character in UTF-8: what String::len counts.
ByteLen(c) == IF c \in {"BAR", "HR"} THEN 3 ELSE 1

\* The number of terminal columns a character takes.
ColWidth(c) == IF c \in Escapes \cup {NL} THEN 0 ELSE 1

RECURSIVE SumOver(_, _)
SumOver(s, i) ==
    IF i > Len(s) THEN 0 ELSE s[i] + SumOver(s, i + 1)

\* String::len: the length of a string in bytes.
StrLen(s) == SumOver([i \in 1..Len(s) |-> ByteLen(s[i])], 1)

\* The display width of a string.
DisplayWidth(s) == SumOver([i \in 1..Len(s) |-> ColWidth(s[i])], 1)

Repeat(c, n) == [i \in 1..n |-> c]

RECURSIVE Concat(_)
Concat(ss) == IF ss = <<>> THEN <<>> ELSE Head(ss) \o Concat(Tail(ss))

RECURSIVE SplitAcc(_, _, _, _)
SplitAcc(s, sep, cur, acc) ==
    IF s = <<>> THEN Append(acc, cur)
    ELSE IF Head(s) = sep THEN SplitAcc(Tail(s), sep, <<>>, Append(acc, cur))
    ELSE SplitAcc(Tail(s), sep, Append(cur, Head(s)), acc)

\* The pieces of s between the separators (empty pieces included).
SplitOn(s, sep) == SplitAcc(s, sep, <<>>, <<>>)

StartsWith(s, p) == Len(s) >= Len(p) /\ SubSeq(s, 1, Len(p)) = p

----------------------------------------------------------------------------
(* usize arithmetic *)

NoUsize == [ok |-> FALSE, huge |-> FALSE, n |-> 0]

\* a - b on usize.  Below zero a debug build panics ("attempt to subtract
\* with overflow") and a release build wraps to 2^64 - (b - a), a number
\* larger than the length of any string: "huge".
UsizeSub(a, b, profile) ==
    IF a >= b THEN [ok |-> TRUE, huge |-> FALSE, n |-> a - b]
    ELSE IF profile = "debug" THEN NoUsize
    ELSE [ok |-> TRUE, huge |-> TRUE, n |-> 0]

----------------------------------------------------------------------------
(* textwrap *)

RECURSIVE Chunks(_, _)
\* A word longer than the width is broken into pieces of the width
\* (break_words is on by default).
Chunks(word, n) ==
    IF Len(word) <= n THEN <<word>>
    ELSE <<SubSeq(word, 1, n)>> \o Chunks(SubSeq(word, n + 1, Len(word)), n)

RECURSIVE GreedyFill(_, _, _, _)
GreedyFill(words, n, cur, acc) ==
    IF words = <<>> THEN Append(acc, cur)
    ELSE IF cur = <<>> THEN GreedyFill(Tail(words), n, Head(words), acc)
    ELSE IF Len(cur) + 1 + Len(Head(words)) <= n
         THEN GreedyFill(Tail(words), n, cur \o <<SP>> \o Head(words), acc)
    ELSE GreedyFill(Tail(words), n, Head(words), Append(acc, cur))

IsWord(s) == s # <<>>

\* One source line wrapped to a width.  A width of 0 leaves one character
\* on each line, as a width of 1 does.
WrapLine(line, width) ==
    IF width.huge THEN <<line>>
    ELSE LET n == IF width.n = 0 THEN 1 ELSE width.n
             words == SelectSeq(SplitOn(line, SP), IsWord)
         IN  IF words = <<>> THEN << <<>> >>
             ELSE GreedyFill(Concat([i \in 1..Len(words) |-> Chunks(words[i], n)]),
                             n, <<>>, <<>>)

\* textwrap::wrap(text, width): the lines of the text, each source line
\* (the text is split at its newlines) wrapped greedily at its blanks.
textwrap_wrap(text, width) ==
    IF text = <<>> THEN <<>>
    ELSE LET src == SplitOn(text, NL)
         IN  Concat([i \in 1..Len(src) |-> WrapLine(src[i], width)])

RECURSIVE JoinLines(_)
JoinLines(lines) ==
    IF lines = <<>> THEN <<>>
    ELSE IF Len(lines) = 1 THEN Head(lines)
    ELSE Head(lines) \o <<NL>> \o JoinLines(Tail(lines))

\* textwrap::fill(text, width): the wrapped lines joined by newlines.
textwrap_fill(text, width) == JoinLines(textwrap_wrap(text, width))

----------------------------------------------------------------------------
(* enum Prefix *)

PrefixNone == [kind |-> "None", p |-> <<>>]
PrefixSimple(p) == [kind |-> "Simple", p |-> p]
PrefixList(p) == [kind |-> "List", p |-> p]

QuoteMarker == <<"BAR", SP>>
ListMarker == <<"*", SP>>

----------------------------------------------------------------------------
(* wrap_and_prefix_text *)

\* What a call returns: ok is FALSE when the call panicked; wrap is the
\* width handed to textwrap (asked = FALSE when textwrap was not called or
\* the width could not be computed).
Returned(text, asked, width) ==
    [ok |-> TRUE, text |-> text, asked |-> asked, wrap |-> width]
Panicked == [ok |-> FALSE, text |-> <<>>, asked |-> FALSE, wrap |-> NoUsize]

\* out.truncate(out.len() - 1): drops the last newline.  On an empty out
\* the subtraction is below zero.
TruncateLast(out, asked, width, profile) ==
    IF out # <<>> THEN Returned(SubSeq(out, 1, Len(out) - 1), asked, width)
    ELSE IF profile = "debug" THEN Panicked
    ELSE Returned(out, asked, width)

\* Prefix::Simple with a known width.
WrapSimple(text, p, width, profile) ==
    LET ww == UsizeSub(width, StrLen(p), profile)
    IN  IF ~ww.ok THEN Panicked
        ELSE LET lines == textwrap_wrap(text, ww)
                 out == Concat([i \in 1..Len(lines) |-> p \o lines[i] \o <<NL>>])
             IN  TruncateLast(out, TRUE, ww, profile)

\* Prefix::List with a known width.
WrapList(text, p, width, profile) ==
    LET prefix_len == StrLen(p)
        blank_prefix == Repeat(SP, prefix_len)
        ww == UsizeSub(width, prefix_len, profile)
    IN  IF ~ww.ok THEN Panicked
        ELSE LET lines == textwrap_wrap(text, ww)
                 out == Concat([i \in 1..Len(lines) |->
                            (IF i = 1 THEN p ELSE blank_prefix) \o lines[i] \o <<NL>>])
             IN  TruncateLast(out, TRUE, ww, profile)

\* A bug PrefixUnwrapped could have: the marker pushed after the text.
PrefixUnwrappedAppended(text, prefix) ==
    IF prefix.kind \in {"Simple", "List"} THEN text \o prefix.p ELSE text

\* The width is unknown: the marker is inserted at index 0 of the text.
PrefixUnwrapped(text, prefix) ==
    IF prefix.kind \in {"Simple", "List"} THEN prefix.p \o text ELSE text

wrap_and_prefix_text(text, prefix, width, profile) ==
    IF width.some
    THEN CASE prefix.kind = "None" ->
                  Returned(textwrap_fill(text, [ok |-> TRUE, huge |-> FALSE, n |-> width.w]),
                           TRUE, [ok |-> TRUE, huge |-> FALSE, n |-> width.w])
           [] prefix.kind = "Simple" -> WrapSimple(text, prefix.p, width.w, profile)
           [] prefix.kind = "List" -> WrapList(text, prefix.p, width.w, profile)
    ELSE Returned(PrefixUnwrapped(text, prefix), FALSE, NoUsize)

----------------------------------------------------------------------------
(* The terminal and the build *)

NoWidth == [some |-> FALSE, w |-> 0]
SomeWidth(w) == [some |-> TRUE, w |-> w]

Profiles == {"debug", "release"}

----------------------------------------------------------------------------
(* markdown::Span and join_spans *)

NoTitle == [some |-> FALSE, s |-> <<>>]
SomeTitle(t) == [some |-> TRUE, s |-> t]

Span(kind, text, aux, title, kids) ==
    [kind |-> kind, text |-> text, aux |-> aux, title |-> title, kids |-> kids]

Break == Span("Break", <<>>, <<>>, NoTitle, <<>>)
Text(t) == Span("Text", t, <<>>, NoTitle, <<>>)
Code(c) == Span("Code", c, <<>>, NoTitle, <<>>)
Link(t, href, title) == Span("Link", t, href, title, <<>>)
Image(alt, src, title) == Span("Image", alt, src, title, <<>>)
Emphasis(kids) == Span("Emphasis", <<>>, <<>>, NoTitle, kids)
Strong(kids) == Span("Strong", <<>>, <<>>, NoTitle, kids)

\* ansi_term: Style::paint(s) displays as the style's prefix, s, and the
\* style's suffix; the suffix of every style that is not plain is ESC [ 0 m.
StylePaint(esc, s) == <<esc>> \o s \o <<ANSI_RESET>>
StyleSuffix(esc) == <<ANSI_RESET>>

\* as_24_bit_terminal_escaped: each highlighted range behind its colour.
Escaped(code) == IF code = <<>> THEN <<>> ELSE <<"ESC_COLOR">> \o code

RECURSIVE join_spans(_)
join_spans(spans) ==
    LET one(span) ==
            CASE span.kind = "Break" -> <<NL>>
              [] span.kind = "Text" -> span.text
              [] span.kind = "Code" -> Escaped(span.text) \o <<ANSI_RESET>>
              [] span.kind = "Link" ->
                     span.text \o <<SP, "(">> \o StylePaint("ESC_UNDERLINE", span.aux)
                         \o StyleSuffix("ESC_UNDERLINE") \o <<")">>
              [] span.kind = "Image" ->
                     <<"[">> \o (IF span.title.some THEN span.title.s
                                 ELSE <<"I", "m", "a", "g", "e">>)
                         \o <<":", SP>> \o span.text \o <<"]", SP, "(">>
                         \o StylePaint("ESC_UNDERLINE", span.aux)
                         \o StyleSuffix("ESC_UNDERLINE") \o <<")">>
              [] span.kind = "Emphasis" ->
                     StylePaint("ESC_ITALIC", join_spans(span.kids))
                         \o StyleSuffix("ESC_ITALIC")
              [] span.kind = "Strong" ->
                     StylePaint("ESC_BOLD", join_spans(span.kids))
                         \o StyleSuffix("ESC_BOLD")
    IN  Concat([i \in 1..Len(spans) |-> one(spans[i])])

----------------------------------------------------------------------------
(* highlight_code *)

\* LinesWithEndings: the lines of the code, each with its newline.
LinesWithEndings(code) ==
    LET parts == SplitOn(code, NL)
        n == IF parts[Len(parts)] = <<>> THEN Len(parts) - 1 ELSE Len(parts)
    IN  [i \in 1..n |-> IF i < Len(parts) THEN parts[i] \o <<NL>> ELSE parts[i]]

highlight_code(code) ==
    LET lines == LinesWithEndings(code)
    IN  Concat([i \in 1..Len(lines) |-> Escaped(lines[i])]) \o <<ANSI_RESET>>

----------------------------------------------------------------------------
(* markdown::Block, markdown::ListItem and print_block *)

\* chain is 0 but for a chain of Blockquotes (see QuoteChain).
Block(kind, spans, text, kids, items) ==
    [kind |-> kind, spans |-> spans, text |-> text, kids |-> kids, items |-> items,
     chain |-> 0]

Header(spans) == Block("Header", spans, <<>>, <<>>, <<>>)
Paragraph(spans) == Block("Paragraph", spans, <<>>, <<>>, <<>>)
Blockquote(kids) == Block("Blockquote", <<>>, <<>>, kids, <<>>)
CodeBlock(code) == Block("CodeBlock", <<>>, code, <<>>, <<>>)
OrderedList(items) == Block("OrderedList", <<>>, <<>>, <<>>, items)
UnorderedList(items) == Block("UnorderedList", <<>>, <<>>, <<>>, items)
Raw(text) == Block("Raw", <<>>, text, <<>>, <<>>)
Hr == Block("Hr", <<>>, <<>>, <<>>, <<>>)

ItemSimple(spans) == [kind |-> "Simple", spans |-> spans, kids |-> <<>>]
ItemParagraph(kids) == [kind |-> "Paragraph", spans |-> <<>>, kids |-> kids]

\* Header and Paragraph: println!("{}\n", output) of the spans joined, wrapped
\* and prefixed.  ok is FALSE when wrap_and_prefix_text panicked.
PrintedText(spans, prefix, width, profile) ==
    LET output == wrap_and_prefix_text(join_spans(spans), prefix, width, profile)
    IN  [ok |-> output.ok, out |-> IF output.ok THEN output.text \o <<NL, NL>> ELSE <<>>]

\* CodeBlock: println!("{}\n", highlighted)
PrintedCode(code) == highlight_code(code) \o <<NL, NL>>

\* Raw: println!("{}\n", string)
PrintedRaw(string) == string \o <<NL, NL>>

\* Hr: the rule glyph width times, or five times, and println!("\n")
PrintedHr(width) ==
    IF width.some THEN Repeat("HR", width.w) \o <<NL, NL>>
    ELSE Repeat("HR", 5) \o <<NL, NL>>

\* ListItem::Simple: println!("{}", output) under the list marker.
PrintedItem(spans, width, profile) ==
    LET output == wrap_and_prefix_text(join_spans(spans), PrefixList(ListMarker),
                                       width, profile)
    IN  [ok |-> output.ok, out |-> IF output.ok THEN output.text \o <<NL>> ELSE <<>>]

\* A call of print_block: its recursion depth (1 for a call from main), the
\* number of Blockquotes around its block, which loop made it (via), the
\* position of its block in that loop, its prefix argument, the kind of its
\* block and, once it has returned, what it wrote.
CallOf(depth, qdepth, via, index, prefix, kind, out) ==
    [depth |-> depth, qdepth |-> qdepth, via |-> via, index |-> index,
     prefix |-> prefix, kind |-> kind, out |-> out]

NoCall == CallOf(0, 0, "none", 0, PrefixNone, "none", <<>>)

\* A loop of the call stack: `for block in blox` of main ("main"), `for block
\* in blocks` of a Blockquote ("Blockquote") or of a ListItem::Paragraph
\* ("ListItem"), `for item in items` of a list ("List").  rest is what the
\* loop has not reached yet, index the position of Head(rest), prefix the
\* prefix the loop passes to print_block, depth the depth of the print_block
\* call the loop runs in (0 for main), me that call, and start the length of
\* the output when that call began.
Frame(loop, rest, index, prefix, depth, qdepth, start, me) ==
    [loop |-> loop, rest |-> rest, index |-> index, prefix |-> prefix,
     depth |-> depth, qdepth |-> qdepth, start |-> start, me |-> me]

MainFrame(blocks) == Frame("main", blocks, 1, PrefixNone, 0, 0, 0, NoCall)

Top(st) == st[Len(st)]
Pop(st) == SubSeq(st, 1, Len(st) - 1)
\* The loop on top moves on to its next element.
Advance(st) ==
    [st EXCEPT ![Len(st)].rest = Tail(@), ![Len(st)].index = @ + 1]

BlockLoops == {"main", "Blockquote", "ListItem"}

----------------------------------------------------------------------------
(* The inputs of the model *)

\* The texts given to wrap_and_prefix_text: words of the letter "a", one
\* blank or one newline between two words, none at either end.
WellFormed(t) ==
    /\ t[1] = "a"
    /\ t[Len(t)] = "a"
    /\ \A i \in 1..(Len(t) - 1) : t[i] = "a" \/ t[i + 1] = "a"

Texts ==
    {t \in UNION {[1..n -> {"a", SP, NL}] : n \in 1..MaxTextLen} : WellFormed(t)}

Markers == {QuoteMarker, ListMarker}

Prefixes ==
    {PrefixNone} \cup {PrefixSimple(m) : m \in Markers} \cup {PrefixList(m) : m \in Markers}

WrapWidths == {NoWidth} \cup {SomeWidth(w) : w \in 0..MaxWidth}

\* The spans given to join_spans.
PlainText == Text(<<"a">>)

SpanLeaves ==
    {PlainText, Break, Code(<<"x">>),
     Link(<<"l">>, <<"u">>, NoTitle),
     Image(<<"i">>, <<"u">>, NoTitle),
     Image(<<"i">>, <<"u">>, SomeTitle(<<"t">>))}

KidLists(S) == UNION {{<<k>>, <<k, PlainText>>, <<PlainText, k>>} : k \in S}

RECURSIVE StyledSpans(_)
StyledSpans(d) ==
    IF d = 0 THEN {PlainText}
    ELSE LET lists == KidLists(StyledSpans(d - 1))
         IN  {PlainText} \cup {Emphasis(l) : l \in lists} \cup {Strong(l) : l \in lists}

SpanInputs ==
    {<<s>> : s \in SpanLeaves \cup StyledSpans(MaxStyleDepth)}
        \cup {<<s, t>> : s \in SpanLeaves, t \in SpanLeaves}

\* The documents given to main.
PlainParagraph == Paragraph(<<Text(<<"a", SP, "a">>)>>)

BlockLeaves ==
    {PlainParagraph,
     Paragraph(<<Text(<<"a">>), Break, Text(<<"a">>)>>),
     Header(<<Text(<<"a", SP, "a">>)>>),
     CodeBlock(<<"x", NL, "y">>),
     Raw(<<"r">>),
     Hr}

PlainItem == ItemSimple(<<Text(<<"a", SP, "a">>)>>)

BlockLists(S) == {<<>>} \cup UNION {{<<k>>, <<k, PlainParagraph>>} : k \in S}

ItemLists(S) ==
    LET items == {PlainItem} \cup {ItemParagraph(l) : l \in BlockLists(S) \ {<<>>}}
    IN  UNION {{<<i>>, <<PlainItem, i>>} : i \in items}

RECURSIVE Blocks(_)
Blocks(d) ==
    IF d = 0 THEN BlockLeaves
    ELSE LET below == Blocks(d - 1)
         IN  BlockLeaves
                 \cup {Blockquote(l) : l \in BlockLists(below)}
                 \cup {UnorderedList(l) : l \in ItemLists(below)}
                 \cup {OrderedList(l) : l \in ItemLists(below)}

\* A paragraph inside n Blockquotes, each the only block of the one around
\* it.  The n nested records are written as one: chain counts the
\* Blockquotes, and Kids gives the blocks of the outermost.
QuoteChain(n) ==
    IF n = 0 THEN PlainParagraph
    ELSE [Blockquote(<<>>) EXCEPT !.chain = n]

\* The blocks of a Blockquote.
Kids(b) == IF b.chain > 0 THEN <<QuoteChain(b.chain - 1)>> ELSE b.kids

Documents ==
    {<<b>> : b \in Blocks(MaxBlockDepth)}
        \cup {<<b, PlainParagraph>> : b \in BlockLeaves}
        \cup {<<QuoteChain(DeepNest)>>}

MainWidths == {NoWidth, SomeWidth(StrLen(QuoteMarker) - 1), SomeWidth(MaxWidth)}

----------------------------------------------------------------------------
(* main: the blocks of the document are printed in order *)

NoResult == Returned(<<>>, FALSE, NoUsize)

Init ==
    /\ terminal_width \in MainWidths
    /\ build \in Profiles
    /\ stack \in {<<MainFrame(d)>> : d \in Documents}
    /\ pc = "run"
    /\ stdout = <<>>
    /\ called = NoCall
    /\ last = NoCall
    /\ w_text = <<>> /\ w_prefix = PrefixNone /\ w_result = NoResult
    /\ s_spans = <<>> /\ s_result = <<>>

\* The loop on top reaches a block of one of the kinds: print_block is called.
AtBlock(kinds) ==
    /\ pc = "run"
    /\ Top(stack).loop \in BlockLoops
    /\ Top(stack).rest # <<>>
    /\ Head(Top(stack).rest).kind \in kinds

TheBlock == Head(Top(stack).rest)

TheCall ==
    LET f == Top(stack)
    IN  CallOf(f.depth + 1, f.qdepth, f.loop, f.index, f.prefix, TheBlock.kind, <<>>)

harness == <<w_text, w_prefix, w_result, s_spans, s_result>>

\* A call that writes and returns at once.
Writes(out) ==
    /\ stdout' = stdout \o out
    /\ called' = TheCall
    /\ last' = [TheCall EXCEPT !.out = out]
    /\ stack' = Advance(stack)
    /\ pc' = pc

\* A call that panics: the process ends.
Panics ==
    /\ pc' = "panicked"
    /\ called' = TheCall
    /\ UNCHANGED <<stdout, last, stack>>

\* Block::Header and Block::Paragraph
PrintText ==
    /\ AtBlock({"Header", "Paragraph"})
    /\ LET r == PrintedText(TheBlock.spans, Top(stack).prefix, terminal_width, build)
       IN  IF r.ok THEN Writes(r.out) ELSE Panics
    /\ UNCHANGED <<terminal_width, build, harness>>

\* Block::CodeBlock
PrintCodeBlock ==
    /\ AtBlock({"CodeBlock"})
    /\ Writes(PrintedCode(TheBlock.text))
    /\ UNCHANGED <<terminal_width, build, harness>>

\* Block::Raw
PrintRaw ==
    /\ AtBlock({"Raw"})
    /\ Writes(PrintedRaw(TheBlock.text))
    /\ UNCHANGED <<terminal_width, build, harness>>

\* Block::Hr
PrintHr ==
    /\ AtBlock({"Hr"})
    /\ Writes(PrintedHr(terminal_width))
    /\ UNCHANGED <<terminal_width, build, harness>>

\* Block::Blockquote: the call starts its loop over the blocks of the quote,
\* with the prefix it passes to each.
EnterBlockquote ==
    /\ AtBlock({"Blockquote"})
    /\ called' = TheCall
    /\ stack' = Append(Advance(stack),
                       Frame("Blockquote", Kids(TheBlock), 1, PrefixSimple(QuoteMarker),
                             TheCall.depth, TheCall.qdepth + 1, Len(stdout), TheCall))
    /\ UNCHANGED <<terminal_width, build, pc, stdout, last, harness>>

\* The loop of a Blockquote is over: the call returns.
LeaveBlockquote ==
    /\ pc = "run"
    /\ Top(stack).loop = "Blockquote"
    /\ Top(stack).rest = <<>>
    /\ last' = [Top(stack).me EXCEPT
                    !.out = SubSeq(stdout, Top(stack).start + 1, Len(stdout))]
    /\ stack' = Pop(stack)
    /\ UNCHANGED <<terminal_width, build, pc, stdout, called, harness>>

\* Block::OrderedList and Block::UnorderedList: the call starts its loop
\* over the items.
EnterList ==
    /\ AtBlock({"OrderedList", "UnorderedList"})
    /\ called' = TheCall
    /\ stack' = Append(Advance(stack),
                       Frame("List", TheBlock.items, 1, PrefixList(ListMarker),
                             TheCall.depth, TheCall.qdepth, Len(stdout), TheCall))
    /\ UNCHANGED <<terminal_width, build, pc, stdout, last, harness>>

AtItem(kind) ==
    /\ pc = "run"
    /\ Top(stack).loop = "List"
    /\ Top(stack).rest # <<>>
    /\ Head(Top(stack).rest).kind = kind

\* ListItem::Simple
PrintSimpleItem ==
    /\ AtItem("Simple")
    /\ LET r == PrintedItem(Head(Top(stack).rest).spans, terminal_width, build)
       IN  IF r.ok
           THEN /\ stdout' = stdout \o r.out
                /\ stack' = Advance(stack)
                /\ pc' = pc
           ELSE /\ pc' = "panicked"
                /\ UNCHANGED <<stdout, stack>>
    /\ UNCHANGED <<terminal_width, build, called, last, harness>>

\* ListItem::Paragraph: the loop over the blocks of the item starts, inside
\* the call of the list.
EnterParagraphItem ==
    /\ AtItem("Paragraph")
    /\ stack' = Append(Advance(stack),
                       Frame("ListItem", Head(Top(stack).rest).kids, 1,
                             PrefixList(ListMarker), Top(stack).depth,
                             Top(stack).qdepth, Len(stdout), Top(stack).me))
    /\ UNCHANGED <<terminal_width, build, pc, stdout, called, last, harness>>

\* The loop over the blocks of a ListItem::Paragraph is over.
LeaveParagraphItem ==
    /\ pc = "run"
    /\ Top(stack).loop = "ListItem"
    /\ Top(stack).rest = <<>>
    /\ stack' = Pop(stack)
    /\ UNCHANGED <<terminal_width, build, pc, stdout, called, last, harness>>

\* The loop over the items is over: println!("") and the call returns.
LeaveList ==
    /\ pc = "run"
    /\ Top(stack).loop = "List"
    /\ Top(stack).rest = <<>>
    /\ stdout' = stdout \o <<NL>>
    /\ last' = [Top(stack).me EXCEPT
                    !.out = SubSeq(stdout', Top(stack).start + 1, Len(stdout'))]
    /\ stack' = Pop(stack)
    /\ UNCHANGED <<terminal_width, build, pc, called, harness>>

\* The loop of main is over: Ok(()).
Exit ==
    /\ pc = "run"
    /\ Top(stack).loop = "main"
    /\ Top(stack).rest = <<>>
    /\ pc' = "done"
    /\ UNCHANGED <<terminal_width, build, stack, stdout, called, last, harness>>

Next ==
    \/ PrintText
    \/ PrintCodeBlock
    \/ PrintRaw
    \/ PrintHr
    \/ EnterBlockquote
    \/ LeaveBlockquote
    \/ EnterList
    \/ PrintSimpleItem
    \/ EnterParagraphItem
    \/ LeaveParagraphItem
    \/ LeaveList
    \/ Exit

Spec == Init /\ [][Next]_vars

----------------------------------------------------------------------------
(* wrap_and_prefix_text on its own *)

InitWrap ==
    /\ terminal_width \in WrapWidths
    /\ build \in Profiles
    /\ w_text \in Texts
    /\ w_prefix \in Prefixes
    /\ w_result = NoResult
    /\ pc = "wrap"
    /\ stack = <<>> /\ stdout = <<>> /\ called = NoCall /\ last = NoCall
    /\ s_spans = <<>> /\ s_result = <<>>

WrapCall ==
    /\ pc = "wrap"
    /\ w_result' = wrap_and_prefix_text(w_text, w_prefix, terminal_width, build)
    /\ pc' = IF w_result'.ok THEN "wrapped" ELSE "panicked"
    /\ UNCHANGED <<terminal_width, build, stack, stdout, called, last,
                   w_text, w_prefix, s_spans, s_result>>

NextWrap == WrapCall

SpecWrap == InitWrap /\ [][NextWrap]_vars

----------------------------------------------------------------------------
(* join_spans on its own *)

InitSpans ==
    /\ s_spans \in SpanInputs
    /\ s_result = <<>>
    /\ pc = "join"
    /\ terminal_width = NoWidth
    /\ build \in Profiles
    /\ stack = <<>> /\ stdout = <<>> /\ called = NoCall /\ last = NoCall
    /\ w_text = <<>> /\ w_prefix = PrefixNone /\ w_result = NoResult

JoinCall ==
    /\ pc = "join"
    /\ s_result' = join_spans(s_spans)
    /\ pc' = "joined"
    /\ UNCHANGED <<terminal_width, build, stack, stdout, called, last,
                   w_text, w_prefix, w_result, s_spans>>

NextSpans == JoinCall

SpecSpans == InitSpans /\ [][NextSpans]_vars

----------------------------------------------------------------------------
(* What is read off an output *)

\* The lines of an output, each ended by its newline.
Lines(out) ==
    LET parts == SplitOn(out, NL)
    IN  SubSeq(parts, 1, Len(parts) - 1)

\* The lines of a returned text: the last one has no newline.
TextLines(text) == SplitOn(text, NL)

RECURSIVE TrailingNewlines(_)
TrailingNewlines(out) ==
    IF out = <<>> \/ out[Len(out)] # NL THEN 0
    ELSE 1 + TrailingNewlines(SubSeq(out, 1, Len(out) - 1))

RECURSIVE LeadingBlanks(_)
LeadingBlanks(line) ==
    IF line = <<>> \/ Head(line) # SP THEN 0 ELSE 1 + LeadingBlanks(Tail(line))

RECURSIVE MaxWordLen(_)
\* The length of the longest word of a text.
MaxWordLen(text) ==
    LET words == Concat([i \in 1..Len(SplitOn(text, NL)) |-> SplitOn(SplitOn(text, NL)[i], SP)])
        longest[i \in 0..Len(words)] ==
            IF i = 0 THEN 0
            ELSE IF Len(words[i]) > longest[i - 1] THEN Len(words[i]) ELSE longest[i - 1]
    IN  longest[Len(words)]

StyleOf(esc) ==
    CASE esc = "ESC_ITALIC" -> "italic"
      [] esc = "ESC_BOLD" -> "bold"
      [] esc = "ESC_UNDERLINE" -> "underline"
      [] esc = "ESC_COLOR" -> "color"

RECURSIVE Shown(_, _)
\* How a terminal shows an output: for each character that is no escape
\* sequence, the styles that are on when it is written.
Shown(out, on) ==
    IF out = <<>> THEN <<>>
    ELSE IF Head(out) = ANSI_RESET THEN Shown(Tail(out), {})
    ELSE IF Head(out) \in Escapes THEN Shown(Tail(out), on \cup {StyleOf(Head(out))})
    ELSE <<on>> \o Shown(Tail(out), on)

RECURSIVE Meant(_, _)
\* What the spans ask for: for each character of the Text and Break spans,
\* the styles of the Emphasis and Strong spans around it.
Meant(spans, on) ==
    IF spans = <<>> THEN <<>>
    ELSE LET span == Head(spans)
             here == CASE span.kind = "Text" -> [i \in 1..Len(span.text) |-> on]
                       [] span.kind = "Break" -> <<on>>
                       [] span.kind = "Emphasis" -> Meant(span.kids, on \cup {"italic"})
                       [] span.kind = "Strong" -> Meant(span.kids, on \cup {"bold"})
                       [] OTHER -> <<>>
         IN  here \o Meant(Tail(spans), on)

RECURSIVE OnlyStyled(_)
\* The spans are Text, Break, Emphasis and Strong spans only.
OnlyStyled(spans) ==
    \A i \in 1..Len(spans) :
        /\ spans[i].kind \in {"Text", "Break", "Emphasis", "Strong"}
        /\ OnlyStyled(spans[i].kids)

----------------------------------------------------------------------------
(* The claims *)

\* C1: every line written for a Blockquote, the blank separator lines after
\* its blocks and the lines of its lists, code blocks, raw text and rules
\* included, begins with the quote marker.
C1_QuoteLinesMarked ==
    last.kind = "Blockquote" =>
        \A i \in 1..Len(Lines(last.out)) : StartsWith(Lines(last.out)[i], QuoteMarker)

\* C2: when the prefix is as wide as the terminal or wider, a Simple or List
\* call of wrap_and_prefix_text does not fault and returns the text wrapped
\* at one column.
C2_ClampsToOneColumn ==
    (/\ pc # "wrap"
     /\ terminal_width.some
     /\ w_prefix.kind \in {"Simple", "List"}
     /\ terminal_width.w <= DisplayWidth(w_prefix.p))
        => /\ pc = "wrapped"
           /\ Len(TextLines(w_result.text))
                  = Len(textwrap_wrap(w_text, [ok |-> TRUE, huge |-> FALSE, n |-> 1]))

\* C3: every block printed from main is followed by exactly one blank line.
C3_OneBlankLineAfterBlock ==
    last.depth = 1 =>
        /\ Len(last.out) > 2
        /\ TrailingNewlines(last.out) = 2

\* C4 as claimed: with the width unknown, wrap_and_prefix_text returns its
\* text unchanged under every prefix.
C4_TextUnchanged ==
    (pc = "wrapped" /\ ~terminal_width.some) => w_result.text = w_text

\* C4 as amended: with the width unknown, wrap_and_prefix_text returns the
\* marker of a Simple or List prefix followed by the text unchanged, and
\* the text alone under Prefix::None.
C4_TextUnchangedAfterMarker ==
    (pc = "wrapped" /\ ~terminal_width.some) =>
        /\ w_result.text = w_prefix.p \o w_text
        /\ w_prefix.kind = "None" => w_result.text = w_text

C4_Witness ==
    /\ pc = "wrapped"
    /\ ~terminal_width.some
    /\ w_prefix.kind = "Simple"
    /\ Len(w_text) > 1
    /\ w_result.text # w_text

\* C5: the prefix print_block gets for a block of a Blockquote at nesting
\* depth n is n quote markers, one after the other.
C5_MarkersConcatenate ==
    called.via = "Blockquote" =>
        called.prefix = PrefixSimple(Concat(Repeat(QuoteMarker, called.qdepth)))

\* C6: of the blocks of a ListItem::Paragraph only the first is written
\* with the list marker.
C6_MarkerOnFirstBlockOnly ==
    (last.via = "ListItem" /\ last.index > 1) => ~StartsWith(last.out, ListMarker)

\* C7: every character of nested Emphasis and Strong spans is shown in all
\* the styles of the spans around it: closing an inner style leaves the
\* outer style on.
C7_OuterStyleStaysOn ==
    (pc = "joined" /\ OnlyStyled(s_spans)) =>
        /\ Len(Shown(s_result, {})) = Len(Meant(s_spans, {}))
        /\ \A i \in 1..Len(Meant(s_spans, {})) :
               Meant(s_spans, {})[i] \subseteq Shown(s_result, {})[i]

\* C8: when the terminal is wider than the prefix and no word is longer than
\* the columns left, no line wrap_and_prefix_text returns is wider than the
\* terminal.
C8_NoLineWiderThanTerminal ==
    (/\ pc = "wrapped"
     /\ terminal_width.some
     /\ terminal_width.w > DisplayWidth(w_prefix.p)
     /\ MaxWordLen(w_text) <= terminal_width.w - DisplayWidth(w_prefix.p))
        => \A i \in 1..Len(TextLines(w_result.text)) :
               DisplayWidth(TextLines(w_result.text)[i]) <= terminal_width.w

\* C9: under a List prefix and a known width the first line starts with the
\* marker and every later line with as many blanks as the marker has
\* columns.
C9_HangingIndent ==
    (pc = "wrapped" /\ terminal_width.some /\ w_prefix.kind = "List") =>
        LET lines == TextLines(w_result.text)
        IN  /\ StartsWith(lines[1], w_prefix.p)
            /\ \A i \in 2..Len(lines) :
                   LeadingBlanks(lines[i]) = DisplayWidth(w_prefix.p)

\* C10: print_block is never called deeper than the maximum depth of 64.
C10_DepthBounded ==
    called.depth <= 64

====
